---- MODULE Spec2Model ----
(***************************************************************************)
(* flo: the in-game relay of the LAN client (GameHandler,                  *)
(* crates/client/src/lan/game/game.rs) and the node's action-tick clock    *)
(* (ActionTickStream, crates/node/src/game/host/clock.rs).                 *)
(*                                                                         *)
(* Spec      : the relay, with healthy transports and well-formed packets. *)
(* SpecClock : the action-tick clock with its producer and its consumer.   *)
(***************************************************************************)
EXTENDS Integers, Sequences, FiniteSets, TLC

VARIABLES
  \* ---- GameHandler ----
  pc,             \* position of run(): "new", "replay_in", "replay_out", "loop", "done"
  result,         \* what run() returned: "none", "Leave", "Disconnected", "TaskCancelled", "Error"
  muted_players,  \* GameHandler.muted_players : BTreeSet<u8>
  end_reason,     \* the Mutex<Option<GameEndReason>> cell: None or Some(reason of the LeaveReq)
  deferred_in,    \* deferred_in_packets not yet replayed
  deferred_out,   \* deferred_out_packets not yet replayed
  w3gs_rx,        \* the packets queued in the w3gs_tx / w3gs_rx channel
  tasks,          \* the detached tasks spawned by the handler (tokio::spawn)
  faults,         \* whether transports may fail and packets may be malformed
  detached,       \* whether the detached tasks and the channel are run, or left open
  last,           \* the event run() handled last, with the state it was handled in
  effects,        \* what handling it did, in program order
  \* ---- ActionTickStream ----
  paused,         \* ActionTickStream.paused
  step,           \* ActionTickStream.step : u16
  step_duration,  \* ActionTickStream.step_duration, in ms
  deadline,       \* deadline of ActionTickStream.delay, in ms
  actions,        \* ActionTickStream.actions : Vec<PlayerAction>
  resume_waker,   \* ActionTickStream.resume_waker : Option<Waker>
  now,            \* the clock, in ms
  polled,         \* what the consumer's last poll_next returned
  calls,          \* the calls made on the stream so far, each with what it met and did
  \* ---- lobby: join_game / leave_game ----
  joined_game_id, \* per player: the game the player's state records, None or Some(id)
  game_players,   \* per game held in memory: the player list of the game's state
  requests,       \* per caller: the join_game or leave_game call in flight, and where it is
  finished        \* the call that returned last, its result and the memory it met

relayVars == <<pc, result, muted_players, end_reason, deferred_in, deferred_out,
               w3gs_rx, tasks, faults, detached, last, effects>>
clockVars == <<paused, step, step_duration, deadline, actions, resume_waker, now,
               polled, calls>>
lobbyVars == <<joined_game_id, game_players, requests, finished>>
vars == <<relayVars, clockVars, lobbyVars>>

\* Option<T>: None is <<>>, Some(x) is <<x>>.
None == <<>>
Some(x) == <<x>>

(***************************************************************************)
(* Bounds of the model.                                                    *)
(***************************************************************************)
MaxDeferred == 2   \* longest deferred_in / deferred_out list passed to run()
MaxTasks == 2      \* detached tasks alive at once
MaxQueue == 1      \* packets the w3gs channel holds

(***************************************************************************)
(* Strings (Rust str): the operations the handler uses.                    *)
(***************************************************************************)
CharAt(s, i) == SubSeq(s, i, i)

StartsWith(s, p) == Len(s) >= Len(p) /\ SubSeq(s, 1, Len(p)) = p

\* &s[n..]
SliceFrom(s, n) == SubSeq(s, n + 1, Len(s))

\* str::trim_end; the space is the only white space of the texts modelled.
RECURSIVE TrimEnd(_)
TrimEnd(s) ==
  IF Len(s) > 0 /\ CharAt(s, Len(s)) = " " THEN TrimEnd(SubSeq(s, 1, Len(s) - 1)) ELSE s

Digits == "0123456789"
IsDigit(c) == \E i \in 1..Len(Digits) : CharAt(Digits, i) = c
DigitValue(c) == (CHOOSE i \in 1..Len(Digits) : CharAt(Digits, i) = c) - 1

RECURSIVE DecimalValue(_)
DecimalValue(s) ==
  IF Len(s) = 0 THEN 0
  ELSE 10 * DecimalValue(SubSeq(s, 1, Len(s) - 1)) + DigitValue(CharAt(s, Len(s)))

U8_MAX == 255

\* str::parse::<u8>(): an optional "+", then one or more digits, at most 255.
\* .ok(): None when it is an Err.
ParseU8(s) ==
  LET d == IF Len(s) > 0 /\ CharAt(s, 1) = "+" THEN SliceFrom(s, 1) ELSE s
  IN IF Len(d) > 0 /\ (\A i \in 1..Len(d) : IsDigit(CharAt(d, i))) /\ DecimalValue(d) <= U8_MAX
     THEN Some(DecimalValue(d)) ELSE None

Lowers == "abcdefghijklmnopqrstuvwxyz"
Uppers == "ABCDEFGHIJKLMNOPQRSTUVWXYZ"
IsAlpha(c) == \E i \in 1..Len(Lowers) : CharAt(Lowers, i) = c \/ CharAt(Uppers, i) = c
IsAlnum(c) == IsAlpha(c) \/ IsDigit(c)

LowerChar(c) ==
  IF \E i \in 1..Len(Uppers) : CharAt(Uppers, i) = c
  THEN CharAt(Lowers, CHOOSE i \in 1..Len(Uppers) : CharAt(Uppers, i) = c)
  ELSE c

RECURSIVE ToLowercase(_)
ToLowercase(s) ==
  IF Len(s) = 0 THEN s ELSE LowerChar(CharAt(s, 1)) \o ToLowercase(SliceFrom(s, 1))

RECURSIVE Join(_, _)
Join(names, sep) ==
  IF Len(names) = 0 THEN ""
  ELSE IF Len(names) = 1 THEN names[1]
  ELSE names[1] \o sep \o Join(Tail(names), sep)

\* The word of a chat command: the longest run of letters and digits at the start.
RECURSIVE WordLen(_)
WordLen(s) ==
  IF Len(s) > 0 /\ IsAlnum(CharAt(s, 1)) THEN 1 + WordLen(SliceFrom(s, 1)) ELSE 0

\* flo_util::chat::parse_chat_command, then ChatCommand::raw(): the text after
\* the leading "-" when the message is -<word>[ <args>], None otherwise.
ParseChatCommand(message) ==
  IF /\ Len(message) >= 2
     /\ CharAt(message, 1) = "-"
     /\ IsAlpha(CharAt(message, 2))
     /\ LET raw == SliceFrom(message, 1)
            n == WordLen(raw)
        IN n = Len(raw) \/ CharAt(raw, n + 1) = " "
  THEN Some(SliceFrom(message, 1))
  ELSE None

\* The elements of a set of numbers, ascending (the iteration order of a BTreeSet).
RECURSIVE Ascending(_)
Ascending(S) ==
  IF S = {} THEN <<>>
  ELSE LET m == CHOOSE x \in S : \A y \in S : x <= y
       IN <<m>> \o Ascending(S \ {m})

Range(s) == {s[i] : i \in 1..Len(s)}

(***************************************************************************)
(* The session: LanGameInfo and NodeInfo, immutable.  Three players; the   *)
(* local player is in slot 1, B is an ally and C an opponent.              *)
(***************************************************************************)
PlayerInfos ==
  << [slot_player_id |-> 1, slot_index |-> 1, player_id |-> 101, name |-> "A"],
     [slot_player_id |-> 2, slot_index |-> 2, player_id |-> 102, name |-> "B"],
     [slot_player_id |-> 3, slot_index |-> 3, player_id |-> 103, name |-> "C"] >>

\* info.game.slots[slot_index].settings
GameSlots ==
  << [team |-> 0, race |-> "Human"],
     [team |-> 0, race |-> "Orc"],
     [team |-> 1, race |-> "Undead"] >>

MySlotPlayerId == 1
MyTeam == 0

GameInfo == [name |-> "game", game_id |-> "1"]
Node == [name |-> "node", location |-> "loc", country_id |-> "cc", id |-> "1"]

SlotPlayerIds == {p.slot_player_id : p \in Range(PlayerInfos)}

(***************************************************************************)
(* Packets: the type id and what the handler decodes of the payload.       *)
(***************************************************************************)
Packet(t) == [type |-> t, ok |-> TRUE, kind |-> "", from |-> 0, text |-> "", reason |-> 0]

\* A frame whose payload does not decode (decode_simple is an Err).
Malformed(t) == [Packet(t) EXCEPT !.ok = FALSE]

ChatToHostPacket(from, kind, text) ==
  [Packet("ChatToHost") EXCEPT !.kind = kind, !.from = from, !.text = text]

ChatFromHostPacket(from, kind, text) ==
  [Packet("ChatFromHost") EXCEPT !.kind = kind, !.from = from, !.text = text]

LeaveReqPacket(reason) == [Packet("LeaveReq") EXCEPT !.reason = reason]

LeaveAckPacket == Packet("LeaveAck")

PingPacket == Packet("PingFromHost")

\* ChatFromHost::private_to_self(player_id, message)
PrivateToSelf(player_id, message) == ChatFromHostPacket(player_id, "Scoped", message)

(***************************************************************************)
(* Effects of a handler, in program order.                                 *)
(***************************************************************************)
ToClient(pkt) == <<"client", pkt>>
ToNode(pkt) == <<"node", pkt>>
Flush == <<"flush">>
Record(reason) == <<"end_reason", reason>>

SentTo(eff, where) == SelectSeq(eff, LAMBDA e : e[1] = where)

(***************************************************************************)
(* The detached tasks (tokio::spawn).  A task holds a clone of w3gs_tx and *)
(* what it has left to do.                                                 *)
(***************************************************************************)
Task(kind) ==
  [kind |-> kind, to |-> 0, msgs |-> <<>>, targets |-> <<>>, solo |-> FALSE,
   player_id |-> 0, name |-> "", muted |-> FALSE]

\* GameHandler::send_chats_to_self: a task that sends the messages, in order.
SendChatsToSelf(player_id, messages) ==
  [Task("chat") EXCEPT !.to = player_id, !.msgs = messages]

\* GameHandler::send_stats_to_self: a task that looks each target up and sends
\* what it gets.
SendStatsToSelf(player_id, targets, solo) ==
  [Task("stats") EXCEPT !.to = player_id, !.targets = targets, !.solo = solo]

\* GameHandler::save_mute: a task that asks the controller to mute or unmute
\* the player and then reports how that went.
SaveMute(player_id, name, muted) ==
  [Task("save") EXCEPT !.to = MySlotPlayerId, !.player_id = player_id,
                       !.name = name, !.muted = muted]

(***************************************************************************)
(* GameHandler::handle_chat_command.  The result: whether the command was  *)
(* handled, the mute set after it, and the tasks it spawned.               *)
(***************************************************************************)
Handled(muted, spawn) == [handled |-> TRUE, muted |-> muted, spawn |-> spawn]

Reply(muted, messages) ==
  Handled(muted, <<SendChatsToSelf(MySlotPlayerId, messages)>>)

\* format!(" ID={} {}", id, name) for every target.  (The messages are text the
\* relay never reads back; a backquote in them is written ' here.)
IdLines(targets) ==
  [i \in 1..Len(targets) |->
     " ID=" \o ToString(targets[i].slot_player_id) \o " " \o targets[i].name]

HelpMessages ==
  << "-game: print game information.",
     "-muteall: Mute all players.",
     "-muteopps: Mute all opponents.",
     "-unmuteall: Unmute all players.",
     "-mute/mutef: Mute your opponent (1v1), or display a player list.",
     "-mute/mutef <ID>: Mute a player.",
     "-unmute/unmutef: Unmute your opponent (1v1), or display a player list.",
     "-unmute/unmutef <ID>: Unmute a player.",
     "-rtt: Print round-trip time information.",
     "-stats: Print opponent/opponents statistics.",
     "-stats <ID>: Print player statistics, or display a player list." >>

GameMessages ==
  << "Game: " \o GameInfo.name \o " (#" \o GameInfo.game_id \o ")",
     "Server: " \o Node.name \o ", " \o Node.location \o ", " \o Node.country_id
        \o " (#" \o Node.id \o ")",
     "Players:" >>
  \o [i \in 1..Len(PlayerInfos) |->
        "  " \o PlayerInfos[i].name \o ": Team "
        \o ToString(GameSlots[PlayerInfos[i].slot_index].team) \o ", "
        \o GameSlots[PlayerInfos[i].slot_index].race]

NotSelf(p) == p.slot_player_id # MySlotPlayerId

Opponent(p) == NotSelf(p) /\ GameSlots[p.slot_index].team # MyTeam

MuteAll(muted) ==
  LET targets == SelectSeq(PlayerInfos, NotSelf)
  IN Reply(muted \cup {t.slot_player_id : t \in Range(targets)}, <<"All players muted.">>)

MuteOpps(muted) ==
  LET targets == SelectSeq(PlayerInfos, Opponent)
  IN Reply(muted \cup {t.slot_player_id : t \in Range(targets)}, <<"All opponents muted.">>)

\* Mutant of UnmuteAll: the set is not cleared.
UnmuteAll_Kept(muted) == Reply(muted, <<"All players un-muted.">>)

UnmuteAll(muted) == Reply({}, <<"All players un-muted.">>)

StatsTarget(p) == [name |-> p.name, race |-> GameSlots[p.slot_index].race]

StatsTargets(players) == [i \in 1..Len(players) |-> StatsTarget(players[i])]

StatsCommand(raw, muted) ==
  LET cmd == TrimEnd(raw)
      solo == Len(PlayerInfos) = 2
      list == <<"Type '-stats <ID>' to get stats for:">> \o IdLines(PlayerInfos)
      Lookup(players) ==
        IF players # <<>>
        THEN Handled(muted, <<SendStatsToSelf(MySlotPlayerId, StatsTargets(players), solo)>>)
        ELSE Reply(muted, list)
  IN IF cmd = "stats"
     THEN LET opps == SelectSeq(PlayerInfos, Opponent)
          IN IF opps # <<>>
             THEN Handled(muted, <<SendStatsToSelf(MySlotPlayerId, StatsTargets(opps), solo)>>)
             ELSE Handled(muted, <<>>)
     ELSE LET id_or_name == SliceFrom(cmd, Len("stats "))
              id == ParseU8(id_or_name)
          IN IF id # None
             THEN Lookup(SelectSeq(PlayerInfos, LAMBDA p : p.slot_player_id = id[1]))
             ELSE Lookup(SelectSeq(PlayerInfos,
                    LAMBDA p : StartsWith(ToLowercase(p.name), ToLowercase(id_or_name))))

\* Mutant of MuteCommand: the id is muted whether or not a player has it.
MuteCommand_AnyId(raw, muted) ==
  LET id == ParseU8(SliceFrom(TrimEnd(raw), Len("mute ")))
  IN IF id # None /\ id[1] # MySlotPlayerId
     THEN Reply(muted \cup {id[1]}, <<"Muted: ">>)
     ELSE Reply(muted, <<"Invalid syntax. Example: -mute 1">>)

MuteCommand(raw, muted) ==
  LET targets == SelectSeq(PlayerInfos,
                   LAMBDA p : NotSelf(p) /\ p.slot_player_id \notin muted)
      cmd == TrimEnd(raw)
  IN IF cmd = "mute" \/ cmd = "mutef"
     THEN LET forever == cmd = "mutef"
          IN IF Len(targets) = 0
             THEN Reply(muted, <<"You have silenced all the players.">>)
             ELSE IF Len(targets) = 1
             THEN IF forever
                  THEN Handled(muted \cup {targets[1].slot_player_id},
                               <<SaveMute(targets[1].player_id, targets[1].name, TRUE)>>)
                  ELSE Reply(muted \cup {targets[1].slot_player_id},
                             <<"Muted: " \o targets[1].name>>)
             ELSE Reply(muted, <<"Type '-mute or -mutef <ID>' to mute a player:">>
                                 \o IdLines(targets))
     ELSE LET forever == StartsWith(cmd, "mutef")
              arg == IF forever THEN SliceFrom(cmd, Len("mutef "))
                                ELSE SliceFrom(cmd, Len("mute "))
              id == ParseU8(arg)
          IN IF id # None
             THEN IF id[1] = MySlotPlayerId
                  THEN Reply(muted, <<"You cannot mute yourself.">>)
                  ELSE LET found == SelectSeq(PlayerInfos,
                                      LAMBDA p : p.slot_player_id = id[1])
                       IN IF found # <<>>
                          THEN IF forever
                               THEN Handled(muted \cup {id[1]},
                                      <<SaveMute(found[1].player_id, found[1].name, TRUE)>>)
                               ELSE Reply(muted \cup {id[1]}, <<"Muted: " \o found[1].name>>)
                          ELSE Reply(muted, <<"Invalid player id. Players:">>
                                              \o IdLines(targets))
             ELSE Reply(muted, <<"Invalid syntax. Example: -mute 1">>)

\* Mutant of UnmuteCommand: nobody is un-muted.
UnmuteCommand_Nobody(raw, muted) == Reply(muted, <<"No player to unmute.">>)

UnmuteCommand(raw, muted) ==
  LET ids == SelectSeq(Ascending(muted),
               LAMBDA id : id # MySlotPlayerId
                           /\ \E p \in Range(PlayerInfos) : p.slot_player_id = id)
      targets == [i \in 1..Len(ids) |->
                    CHOOSE p \in Range(PlayerInfos) : p.slot_player_id = ids[i]]
      cmd == TrimEnd(raw)
  IN IF cmd = "unmute" \/ cmd = "unmutef"
     THEN LET forever == cmd = "unmutef"
          IN IF Len(targets) = 0
             THEN Reply(muted, <<"No player to unmute.">>)
             ELSE IF Len(targets) = 1
             THEN IF forever
                  THEN Handled(muted \ {targets[1].slot_player_id},
                               <<SaveMute(targets[1].player_id, targets[1].name, FALSE)>>)
                  ELSE Reply(muted \ {targets[1].slot_player_id},
                             <<"Un-muted: " \o targets[1].name>>)
             ELSE Reply(muted, <<"Type '-unmute <ID>' to unmute a player:">>
                                 \o IdLines(targets))
     ELSE LET forever == StartsWith(cmd, "unmutef")
              arg == IF forever THEN SliceFrom(cmd, Len("unmutef "))
                                ELSE SliceFrom(cmd, Len("unmute "))
              id == ParseU8(arg)
          IN IF id # None
             THEN LET found == SelectSeq(targets, LAMBDA t : t.slot_player_id = id[1])
                  IN IF found # <<>>
                     THEN IF forever
                          THEN Handled(muted \ {id[1]},
                                 <<SaveMute(found[1].player_id, found[1].name, FALSE)>>)
                          ELSE Reply(muted \ {id[1]}, <<"Un-muted: " \o found[1].name>>)
                     ELSE Reply(muted, <<"Invalid player id. Muted players:">>
                                         \o IdLines(targets))
             ELSE Reply(muted, <<"Invalid syntax. Example: -unmute 1">>)

HandleChatCommand(raw, muted) ==
  IF raw = "flo" THEN Reply(muted, HelpMessages)
  ELSE IF raw = "game" THEN Reply(muted, GameMessages)
  ELSE IF raw = "muteall" THEN MuteAll(muted)
  ELSE IF raw = "muteopps" THEN MuteOpps(muted)
  ELSE IF raw = "unmuteall" THEN UnmuteAll(muted)
  ELSE IF StartsWith(raw, "stats") THEN StatsCommand(raw, muted)
  ELSE IF StartsWith(raw, "mute") THEN MuteCommand(raw, muted)
  ELSE IF StartsWith(raw, "unmute") THEN UnmuteCommand(raw, muted)
  ELSE [handled |-> FALSE, muted |-> muted, spawn |-> <<>>]

(***************************************************************************)
(* The packet handlers.  A handler's outcome: the mute set and the         *)
(* end-reason cell after it, the tasks it spawned, its effects in program  *)
(* order, and how it returned: "Ok", or the reason run() returns.          *)
(* f says which transports fail during the handler.                        *)
(***************************************************************************)
Outcome(muted, er, spawn, eff, ret) ==
  [muted |-> muted, end_reason |-> er, spawn |-> spawn, eff |-> eff, ret |-> ret]

NoFault == [client |-> FALSE, node |-> FALSE, flush |-> FALSE]

\* w3gs_stream.send(pkt).await?
SendClient(pkt, f) == IF f.client THEN <<>> ELSE <<ToClient(pkt)>>

\* node_stream.send_w3gs(pkt).await
SendNode(pkt, f) == IF f.node THEN <<>> ELSE <<ToNode(pkt)>>

\* Mutant of MutedChat: the kind of the message is not looked at.
MutedChat_AnyKind(pkt, muted) == pkt.from \in muted

\* The mute filter of handle_incoming_w3gs: the chat of a muted player.
MutedChat(pkt, muted) == pkt.kind = "Scoped" /\ pkt.from \in muted

\* GameHandler::handle_incoming_w3gs: node -> client.
HandleIncomingW3gs(pkt, muted, er, f) ==
  IF pkt.type = "ChatFromHost" /\ muted # {} /\ ~pkt.ok
  THEN Outcome(muted, er, <<>>, <<>>, "Error")
  ELSE IF pkt.type = "ChatFromHost" /\ muted # {} /\ MutedChat(pkt, muted)
  THEN Outcome(muted, er, <<>>, <<>>, "Ok")
  ELSE Outcome(muted, er, <<>>, SendClient(pkt, f), IF f.client THEN "Error" ELSE "Ok")

\* Mutant of HandleLeaveReq: the branch does not return, and the packet goes
\* on to the forwarding at the end of handle_game_packet.
HandleLeaveReq_FallThrough(pkt, muted, er, f) ==
  Outcome(muted, Some(pkt.reason), <<>>,
          <<Record(pkt.reason)>> \o SendNode(pkt, f) \o SendClient(LeaveAckPacket, f)
            \o SendNode(pkt, f),
          "Ok")

\* Mutant of HandleLeaveReq: the LeaveAck is sent before the LeaveReq is forwarded.
HandleLeaveReq_AckFirst(pkt, muted, er, f) ==
  Outcome(muted, Some(pkt.reason), <<>>,
          <<Record(pkt.reason)>> \o SendClient(LeaveAckPacket, f) \o SendNode(pkt, f),
          "Ok")

\* Mutant of HandleLeaveReq: a reason already recorded is kept.
HandleLeaveReq_FirstWins(pkt, muted, er, f) ==
  Outcome(muted, IF er = None THEN Some(pkt.reason) ELSE er, <<>>,
          <<Record(pkt.reason)>> \o SendNode(pkt, f) \o SendClient(LeaveAckPacket, f),
          "Ok")

\* The LeaveReq branch of handle_game_packet.
HandleLeaveReq(pkt, muted, er, f) ==
  IF ~pkt.ok
  THEN Outcome(muted, er, <<>>, <<>>, "Error")
  ELSE Outcome(muted, Some(pkt.reason), <<>>,
               <<Record(pkt.reason)>> \o SendNode(pkt, f) \o SendClient(LeaveAckPacket, f),
               IF f.client THEN "Error" ELSE "Ok")

\* Mutant of ForwardToNode: the packet is sent to the node twice.
ForwardToNode_Twice(pkt, muted, er, f) ==
  Outcome(muted, er, <<>>, SendNode(pkt, f) \o SendNode(pkt, f),
          IF f.node THEN "Error" ELSE "Ok")

\* The last statement of handle_game_packet: node_stream.send_w3gs(pkt).await?
ForwardToNode(pkt, muted, er, f) ==
  Outcome(muted, er, <<>>, SendNode(pkt, f), IF f.node THEN "Error" ELSE "Ok")

\* Texts the client's user may type.
ChatTexts ==
  { "hi", "-flo", "-flo x", "-game", "-rtt", "-stats", "-stats 3", "-stats b",
    "-muteall", "-muteopps", "-unmuteall", "-muteall ",
    "-mute", "-mutef", "-mute 1", "-mute 2", "-mute 3", "-mutef 3", "-mute 9", "-mute x",
    "-unmute", "-unmutef", "-unmute 2", "-unmute 3", "-unmutef 3", "-unmute 1", "-unmute x" }

\* The function f as an explicit table: its values are worked out once.
Tabulated(f) == f @@ <<>>

\* if let Some(cmd) = parse_chat_command(message) { self.handle_chat_command(cmd) }
\* for every text and every mute set.
ChatCommands ==
  Tabulated([text \in ChatTexts |->
     Tabulated([muted \in SUBSET SlotPlayerIds |->
        LET cmd == ParseChatCommand(text)
        IN IF cmd = None
           THEN [handled |-> FALSE, muted |-> muted, spawn |-> <<>>]
           ELSE HandleChatCommand(cmd[1], muted)])])

\* Mutant of HandleChatToHost: a handled command is forwarded to the node as well.
HandleChatToHost_AlsoForwarded(pkt, muted, er, f) ==
  LET r == ChatCommands[pkt.text][muted]
  IN IF pkt.kind = "Scoped" /\ r.handled
     THEN Outcome(r.muted, er, r.spawn, SendNode(pkt, f), "Ok")
     ELSE ForwardToNode(pkt, muted, er, f)

\* The ChatToHost branch of handle_game_packet.
HandleChatToHost(pkt, muted, er, f) ==
  IF ~pkt.ok
  THEN Outcome(muted, er, <<>>, <<>>, "Error")
  ELSE LET r == ChatCommands[pkt.text][muted]
       IN IF pkt.kind = "Scoped" /\ r.handled
          THEN Outcome(r.muted, er, r.spawn, <<>>, "Ok")
          ELSE ForwardToNode(pkt, muted, er, f)

\* GameHandler::handle_game_packet: client -> node.
HandleGamePacket(pkt, muted, er, f) ==
  IF pkt.type = "PongToHost" THEN Outcome(muted, er, <<>>, <<>>, "Ok")
  ELSE IF pkt.type = "ChatToHost" THEN HandleChatToHost(pkt, muted, er, f)
  ELSE IF pkt.type = "LeaveReq" THEN HandleLeaveReq(pkt, muted, er, f)
  ELSE ForwardToNode(pkt, muted, er, f)

\* Mutant of HandleLeaveAck: the LeaveAck is treated as any other packet of the
\* client, and forwarded to the node.
HandleLeaveAck_Forwarded(muted, er, f) ==
  Outcome(muted, er, <<>>, SendNode(LeaveAckPacket, f), "Ok")

\* Mutant of HandleLeaveAck: the branch records an end reason of its own.
HandleLeaveAck_Recording(muted, er, f) ==
  Outcome(muted, Some(1), <<>>, <<ToClient(LeaveAckPacket), Flush>>, "Leave")

\* The LeaveAck branch of run()'s client arm.
HandleLeaveAck(muted, er, f) ==
  IF f.client
  THEN Outcome(muted, er, <<>>, <<>>, "Error")
  ELSE IF f.flush
  THEN Outcome(muted, er, <<>>, <<ToClient(LeaveAckPacket)>>, "Error")
  ELSE Outcome(muted, er, <<>>, <<ToClient(LeaveAckPacket), Flush>>, "Leave")

\* run()'s client arm, for a packet received.
HandleClientPacket(pkt, muted, er, f) ==
  IF pkt.type = "LeaveAck" THEN HandleLeaveAck(muted, er, f)
  ELSE HandleGamePacket(pkt, muted, er, f)

\* Mutant of SendDeferredOut: the packet goes through the client -> node dispatch.
SendDeferredOut_Dispatched(pkt, muted, er, f) == HandleGamePacket(pkt, muted, er, f)

\* Mutant of SendDeferredOut: the packet is treated as one the client arm of
\* the loop receives.
SendDeferredOut_ClientArm(pkt, muted, er, f) == HandleClientPacket(pkt, muted, er, f)

\* The body of run()'s loop over deferred_out_packets: node_stream.send_w3gs(pkt).await?
SendDeferredOut(pkt, muted, er, f) == ForwardToNode(pkt, muted, er, f)

(***************************************************************************)
(* What the environment may hand to the relay.                             *)
(***************************************************************************)
\* Packets the client may send.
ClientPackets ==
  { Packet("PongToHost"), Packet("OutgoingKeepAlive"), Packet("OutgoingAction"),
    Packet("DropReq"), Packet("MapSize"), LeaveReqPacket(1), LeaveReqPacket(7),
    LeaveAckPacket, ChatToHostPacket(MySlotPlayerId, "TeamChange", "") }
  \cup { ChatToHostPacket(MySlotPlayerId, "Scoped", t) : t \in ChatTexts }

MalformedClientPackets == {Malformed("ChatToHost"), Malformed("LeaveReq")}

\* Packets the client sends in the runs with the detached tasks: commands that
\* spawn a chat task or a save task, and the packet that ends run.
ClosedClientPackets ==
  { LeaveAckPacket }
  \cup { ChatToHostPacket(MySlotPlayerId, "Scoped", t) :
           t \in {"-mute 3", "-mutef 3", "-unmute 3", "-unmutef 3"} }

\* Packets the node side may put in the w3gs channel.
NodePackets ==
  { ChatFromHostPacket(2, "Scoped", "hi"), ChatFromHostPacket(3, "Scoped", "hi"),
    ChatFromHostPacket(2, "TeamChange", ""), Packet("OutgoingKeepAlive"),
    Packet("OutgoingAction"), Packet("PlayerLeft"), Packet("PongToHost") }

MalformedNodePackets == {Malformed("ChatFromHost")}

\* Packets the node side puts in the w3gs channel in the runs with the detached
\* tasks.
ClosedNodePackets == {ChatFromHostPacket(3, "Scoped", "hi")}

\* Packets buffered during the lobby, passed to run().
DeferredInPackets ==
  { ChatFromHostPacket(2, "Scoped", "hi"), Packet("PongToHost"), LeaveReqPacket(7) }

DeferredOutPackets ==
  { Packet("PongToHost"), LeaveReqPacket(7), LeaveAckPacket }

\* deferred_in_packets in the runs with the detached tasks.
ClosedDeferredInPackets == {ChatFromHostPacket(3, "Scoped", "hi")}

\* deferred_out_packets in the runs with the detached tasks.
ClosedDeferredOutPackets == {Packet("PongToHost")}

SeqsUpTo(S, n) == UNION {[1..k -> S] : k \in 0..n}

\* player_ids the controller may list as muted: the local player, B, a stranger.
MuteListIds == {101, 102, 999}

\* The controller's answer to GetMuteList.
MuteListReplies ==
  {[ok |-> TRUE, v |-> ids] : ids \in SUBSET MuteListIds} \cup {[ok |-> FALSE, v |-> {}]}

AnyFault == [client : BOOLEAN, node : BOOLEAN, flush : BOOLEAN]

Faults == IF faults THEN AnyFault ELSE {NoFault}

(***************************************************************************)
(* GameHandler::run                                                        *)
(***************************************************************************)
NoPacket == Packet("")

NoEvent == [src |-> "none", pkt |-> NoPacket, muted |-> {}]

\* The event handled now, the state it is handled in, and the event before it
\* (kept for the open runs with healthy transports only).
Event(src, pkt, f) ==
  [src |-> src, pkt |-> pkt, fault |-> f, muted |-> muted_players,
   end_reason |-> end_reason, deferred_in |-> deferred_in, deferred_out |-> deferred_out,
   pc |-> pc, result |-> result,
   prev |-> IF faults \/ detached THEN NoEvent
            ELSE [src |-> last.src, pkt |-> last.pkt, muted |-> last.muted]]

Spawn(task) == <<"spawn", task>>

Spawned(spawn) == [i \in 1..Len(spawn) |-> Spawn(spawn[i])]

\* Mutant of NextPc: deferred_out is replayed first.
NextPc_OutFirst(din, dout) ==
  IF dout # <<>> THEN "replay_out" ELSE IF din # <<>> THEN "replay_in" ELSE "loop"

\* The statement run() executes next, given what is left to replay.
NextPc(din, dout) ==
  IF din # <<>> THEN "replay_in" ELSE IF dout # <<>> THEN "replay_out" ELSE "loop"

\* One step of run(): the handler's outcome takes effect; run() goes on at `next`
\* or returns.  The tasks it spawned run beside it when `detached`.
Step(src, pkt, f, out, next) ==
  /\ last' = Event(src, pkt, f)
  /\ effects' = Spawned(out.spawn) \o out.eff
  /\ muted_players' = out.muted
  /\ end_reason' = out.end_reason
  /\ IF detached
     THEN tasks' = tasks \o out.spawn /\ Len(tasks \o out.spawn) <= MaxTasks
     ELSE tasks' = tasks
  /\ IF out.ret = "Ok"
     THEN pc' = next /\ result' = result
     ELSE pc' = "done" /\ result' = out.ret
  /\ UNCHANGED <<faults, detached>>

\* Mutant of AutoMute: the mute list is applied and not announced.
AutoMute_Unannounced(reply, muted, er) ==
  LET mute_list == IF reply.ok THEN reply.v ELSE {}
  IN Outcome(muted \cup {p.slot_player_id : p \in {q \in Range(PlayerInfos) :
                                                     q.player_id \in mute_list}},
             er, <<>>, <<>>, "Ok")

\* run(), up to the replay: the mute list of the controller is applied and
\* announced.
AutoMute(reply, muted, er) ==
  LET mute_list == IF reply.ok THEN reply.v ELSE {}
      hit == SelectSeq(PlayerInfos, LAMBDA p : p.player_id \in mute_list)
      muted_names == [i \in 1..Len(hit) |-> hit[i].name]
  IN Outcome(muted \cup {p.slot_player_id : p \in Range(hit)}, er,
             IF muted_names # <<>>
             THEN <<SendChatsToSelf(MySlotPlayerId,
                                    <<"Auto muted: " \o Join(muted_names, ", ")>>)>>
             ELSE <<>>,
             <<>>, "Ok")

Run ==
  /\ pc = "new"
  /\ \E reply \in MuteListReplies,
        din \in SeqsUpTo(IF detached THEN ClosedDeferredInPackets ELSE DeferredInPackets,
                         MaxDeferred),
        dout \in SeqsUpTo(IF detached THEN ClosedDeferredOutPackets ELSE DeferredOutPackets,
                          MaxDeferred) :
       /\ deferred_in' = din
       /\ deferred_out' = dout
       /\ Step("run", NoPacket, NoFault, AutoMute(reply, muted_players, end_reason),
               NextPc(din, dout))
  /\ UNCHANGED <<w3gs_rx, clockVars, lobbyVars>>

\* for pkt in deferred_in_packets
ReplayIn ==
  /\ pc = "replay_in"
  /\ \E f \in Faults :
       Step("deferred_in", Head(deferred_in), f,
            HandleIncomingW3gs(Head(deferred_in), muted_players, end_reason, f),
            NextPc(Tail(deferred_in), deferred_out))
  /\ deferred_in' = Tail(deferred_in)
  /\ UNCHANGED <<deferred_out, w3gs_rx, clockVars, lobbyVars>>

\* for pkt in deferred_out_packets
ReplayOut ==
  /\ pc = "replay_out"
  /\ \E f \in Faults :
       Step("deferred_out", Head(deferred_out), f,
            SendDeferredOut(Head(deferred_out), muted_players, end_reason, f),
            NextPc(deferred_in, Tail(deferred_out)))
  /\ deferred_out' = Tail(deferred_out)
  /\ UNCHANGED <<deferred_in, w3gs_rx, clockVars, lobbyVars>>

\* select!: ping.tick()
PingTick ==
  /\ pc = "loop"
  /\ \E f \in Faults :
       Step("ping", PingPacket, f,
            Outcome(muted_players, end_reason, <<>>, SendClient(PingPacket, f),
                    IF f.client THEN "Error" ELSE "Ok"),
            "loop")
  /\ UNCHANGED <<deferred_in, deferred_out, w3gs_rx, clockVars, lobbyVars>>

\* select!: w3gs_stream.recv() gave a packet
ClientRecv ==
  /\ pc = "loop"
  /\ \E pkt \in (IF detached THEN ClosedClientPackets ELSE ClientPackets)
                  \cup (IF faults THEN MalformedClientPackets ELSE {}),
        f \in Faults :
       Step("client", pkt, f, HandleClientPacket(pkt, muted_players, end_reason, f),
            "loop")
  /\ UNCHANGED <<deferred_in, deferred_out, w3gs_rx, clockVars, lobbyVars>>

\* select!: w3gs_stream.recv() gave the end of the stream, or an error
ClientClosed ==
  /\ pc = "loop"
  /\ \E how \in (IF faults THEN {"closed", "error"} ELSE {"closed"}) :
       Step(how, NoPacket, NoFault,
            Outcome(muted_players, end_reason, <<>>, <<>>, "Disconnected"), "loop")
  /\ UNCHANGED <<deferred_in, deferred_out, w3gs_rx, clockVars, lobbyVars>>

\* select!: status_rx.changed()
StatusChanged ==
  /\ pc = "loop"
  /\ \E changed \in {"status", "no_status", "tx_dropped"} :
       Step(changed, NoPacket, NoFault,
            Outcome(muted_players, end_reason, <<>>, <<>>,
                    IF changed = "tx_dropped" THEN "TaskCancelled" ELSE "Ok"),
            "loop")
  /\ UNCHANGED <<deferred_in, deferred_out, w3gs_rx, clockVars, lobbyVars>>

\* What the w3gs channel may deliver when its senders are not modelled: a packet
\* of the node side, or a chat to self of a detached task.
InboundPackets ==
  NodePackets \cup {PrivateToSelf(MySlotPlayerId, "reply")}

\* Mutant of HandleInbound: the closed queue is taken for a disconnect.
HandleInbound_ClosedDisconnects(next, muted, er, f) ==
  IF next = None
  THEN Outcome(muted, er, <<>>, <<>>, "Disconnected")
  ELSE HandleIncomingW3gs(next[1], muted, er, f)

\* run()'s w3gs_rx arm, for what recv() gave: Some(pkt), or None when the channel
\* is closed and empty.
HandleInbound(next, muted, er, f) ==
  IF next = None
  THEN Outcome(muted, er, <<>>, <<>>, "TaskCancelled")
  ELSE HandleIncomingW3gs(next[1], muted, er, f)

\* select!: w3gs_rx.recv() gave a packet.  It never gives None: the handler holds
\* w3gs_tx, a sender of the channel, for as long as run() lasts.
InboundRecv ==
  /\ pc = "loop"
  /\ IF detached
     THEN /\ w3gs_rx # <<>>
          /\ w3gs_rx' = Tail(w3gs_rx)
          /\ \E f \in Faults :
               Step("inbound", Head(w3gs_rx), f,
                    HandleInbound(Some(Head(w3gs_rx)), muted_players, end_reason, f),
                    "loop")
     ELSE /\ w3gs_rx' = w3gs_rx
          /\ \E pkt \in InboundPackets \cup (IF faults THEN MalformedNodePackets ELSE {}),
                f \in Faults :
               Step("inbound", pkt, f,
                    HandleInbound(Some(pkt), muted_players, end_reason, f), "loop")
  /\ UNCHANGED <<deferred_in, deferred_out, clockVars, lobbyVars>>

(***************************************************************************)
(* The detached tasks and the node side, which hold senders of the w3gs    *)
(* channel.  They run beside run() when `detached`.                        *)
(***************************************************************************)
RemoveAt(seq, i) == SubSeq(seq, 1, i - 1) \o SubSeq(seq, i + 1, Len(seq))

Controller(request, player_id) == <<"controller", request, player_id>>
Queued(pkt) == <<"queued", pkt>>

\* The task that sends, as it is before it sends.
From(task) == <<"from", task>>

\* The tasks spawned before task i that are still alive when task i sends.
Overtaken(i) == [k \in 1..(i - 1) |-> <<"overtakes", tasks[k]>>]

\* Mutant of NextMessage: the last message goes first.
NextMessage_Last(msgs) == msgs[Len(msgs)]

\* for message in messages
NextMessage(msgs) == Head(msgs)

\* A step of a task or of the node side changes nothing of run().
TaskStep(src, pkt, eff) ==
  /\ last' = Event(src, pkt, NoFault)
  /\ effects' = eff
  /\ UNCHANGED <<pc, result, muted_players, end_reason, deferred_in, deferred_out,
                 faults, detached, clockVars, lobbyVars>>

\* The node side sends a packet into the channel.
NodeSend ==
  /\ detached
  /\ Len(w3gs_rx) < MaxQueue
  /\ \E pkt \in ClosedNodePackets :
       /\ w3gs_rx' = Append(w3gs_rx, pkt)
       /\ TaskStep("node_send", pkt, <<Queued(pkt)>>)
  /\ tasks' = tasks

\* send_chats_to_self (the free function): the next message of a chat task goes
\* into the channel; the task ends after its last message.
ChatTask ==
  /\ detached
  /\ \E i \in 1..Len(tasks) :
       /\ tasks[i].kind = "chat"
       /\ tasks[i].msgs # <<>>
       /\ Len(w3gs_rx) < MaxQueue
       /\ LET pkt == PrivateToSelf(tasks[i].to, NextMessage(tasks[i].msgs))
          IN /\ w3gs_rx' = Append(w3gs_rx, pkt)
             /\ tasks' = IF Tail(tasks[i].msgs) = <<>> THEN RemoveAt(tasks, i)
                         ELSE [tasks EXCEPT ![i].msgs = Tail(@)]
             /\ TaskStep("chat_task", pkt, <<Queued(pkt), From(tasks[i])>> \o Overtaken(i))

\* Mutant of SaveMuteChat: the confirmation does not depend on the answer.
SaveMuteChat_AlwaysForever(task, answer) ==
  (IF task.muted THEN "Muted" ELSE "Un-muted") \o " forever: " \o task.name

\* The confirmation of save_mute, for the answer of the controller.
SaveMuteChat(task, answer) ==
  LET action == IF task.muted THEN "Muted" ELSE "Un-muted"
  IN IF answer = "failed"
     THEN action \o " temporary: " \o task.name
     ELSE action \o " forever: " \o task.name

\* The task of save_mute: the request goes to the controller, and the answer
\* decides the confirmation, which send_chats_to_self then sends.
SaveTask ==
  /\ detached
  /\ \E i \in 1..Len(tasks), answer \in {"ok", "failed"} :
       /\ tasks[i].kind = "save"
       /\ tasks' = [tasks EXCEPT ![i] = SendChatsToSelf(tasks[i].to,
                                          <<SaveMuteChat(tasks[i], answer)>>)]
       /\ w3gs_rx' = w3gs_rx
       /\ TaskStep("save_" \o answer, NoPacket,
                   <<Controller(IF tasks[i].muted THEN "MutePlayer" ELSE "UnmutePlayer",
                                tasks[i].player_id)>>)

\* The task of send_stats_to_self: each target is looked up, and what a lookup
\* that succeeds gives is sent; the task ends after its last target.
StatsTask ==
  /\ detached
  /\ \E i \in 1..Len(tasks), found \in BOOLEAN :
       /\ tasks[i].kind = "stats"
       /\ tasks[i].targets # <<>>
       /\ found => Len(w3gs_rx) < MaxQueue
       /\ LET pkt == PrivateToSelf(tasks[i].to, "stats of " \o Head(tasks[i].targets).name)
          IN /\ w3gs_rx' = IF found THEN Append(w3gs_rx, pkt) ELSE w3gs_rx
             /\ tasks' = IF Tail(tasks[i].targets) = <<>> THEN RemoveAt(tasks, i)
                         ELSE [tasks EXCEPT ![i].targets = Tail(@)]
             /\ TaskStep("stats_task", pkt, IF found THEN <<Queued(pkt)>> ELSE <<>>)

(***************************************************************************)
(* The relay: GameHandler::new, then run().                                *)
(***************************************************************************)
InitRelay ==
  /\ pc = "new"
  /\ result = "none"
  /\ muted_players = {}
  /\ end_reason = None
  /\ deferred_in = <<>>
  /\ deferred_out = <<>>
  /\ w3gs_rx = <<>>
  /\ tasks = <<>>
  /\ last = [src |-> "none", pkt |-> NoPacket, fault |-> NoFault, muted |-> {},
             end_reason |-> None, deferred_in |-> <<>>, deferred_out |-> <<>>,
             pc |-> "new", result |-> "none", prev |-> NoEvent]
  /\ effects = <<>>

NextRelay ==
  \/ Run
  \/ ReplayIn
  \/ ReplayOut
  \/ PingTick
  \/ ClientRecv
  \/ ClientClosed
  \/ StatusChanged
  \/ InboundRecv

\* The players, and the games the lobby holds in memory; game 3 is in no memory.
LobbyPlayers == {1, 2}
LobbyGames == {1, 2}
GameIds == {1, 2, 3}

\* The tasks that call join_game and leave_game.
Callers == {1, 2}

Idle == [op |-> "idle", player_id |-> 0, game_id |-> 0, at |-> "idle"]

NoCall == [op |-> "none", player_id |-> 0, game_id |-> 0, result |-> "none",
           joined_game_id |-> <<>>, game_players |-> <<>>]

LobbyIdle ==
  /\ joined_game_id = [p \in LobbyPlayers |-> None]
  /\ game_players = [g \in LobbyGames |-> <<>>]
  /\ requests = [c \in Callers |-> Idle]
  /\ finished = NoCall

ClockIdle ==
  /\ paused = FALSE
  /\ step = 0
  /\ step_duration = 0
  /\ deadline = 0
  /\ actions = <<>>
  /\ resume_waker = None
  /\ now = 0
  /\ polled = "None"
  /\ calls = <<>>

\* The relay with healthy transports and well-formed packets; what the w3gs
\* channel delivers is any packet.
Init == InitRelay /\ faults = FALSE /\ detached = FALSE /\ ClockIdle /\ LobbyIdle

Spec == Init /\ [][NextRelay]_vars

\* The relay with transports that may fail at any send, receive or flush, and
\* packets that may fail to decode.
InitFaults == InitRelay /\ faults = TRUE /\ detached = FALSE /\ ClockIdle /\ LobbyIdle

SpecFaults == InitFaults /\ [][NextRelay]_vars

\* The relay with the detached tasks and the node side running beside it.
InitTasks == InitRelay /\ faults = FALSE /\ detached = TRUE /\ ClockIdle /\ LobbyIdle

NextTasks ==
  \/ Run
  \/ ReplayIn
  \/ ReplayOut
  \/ ClientRecv
  \/ InboundRecv
  \/ NodeSend
  \/ ChatTask
  \/ SaveTask

SpecTasks == InitTasks /\ [][NextTasks]_vars

(***************************************************************************)
(* ActionTickStream (crates/node/src/game/host/clock.rs).  Time is in ms.  *)
(* A PlayerAction is named by the call that passed it: the n-th add_action *)
(* call, or the n-th place of a list given to replace_actions.             *)
(***************************************************************************)
MIN_STEP == 15
MAX_STEP == 250
U16 == 65536

MaxNow == 40       \* the clock stops there
MaxCalls == 5      \* calls kept in the history; the stream is left alone after that

Max(a, b) == IF a >= b THEN a ELSE b
Min(a, b) == IF a <= b THEN a ELSE b

\* u16 values passed to new() and set_step()
StepInputs == {0, 20, 300}

\* How far the clock moves at once.
TimeDeltas == {20}

Added(n) == [by |-> "add_action", n |-> n]
Replacing(n) == [by |-> "replace_actions", n |-> n]

\* Lists passed to replace_actions.
ReplaceLists == {<<>>, <<Replacing(1)>>}

\* A call of the history: its name, the actions it passed (for a tick: the
\* actions emitted, and ms its time_increment_ms), the queue and the paused flag
\* it met.
Call(op, arg, ms) ==
  [op |-> op, arg |-> arg, ms |-> ms, queue |-> actions, paused |-> paused]

Ops(op) == {k \in 1..Len(calls) : calls[k].op = op}

Logged(c) ==
  /\ Len(calls) < MaxCalls
  /\ calls' = Append(calls, c)

\* A panic in poll_next ends the task that owns the stream.
Alive == polled # "Panic"

\* ActionTickStream::new(step)
New(s) ==
  /\ paused = FALSE
  /\ step = Max(MIN_STEP, s)
  /\ step_duration = Max(MIN_STEP, s)
  /\ deadline = now + Max(MIN_STEP, s)
  /\ actions = <<>>
  /\ resume_waker = None

\* ActionTickStream::set_step(value)
SetStep ==
  /\ Alive
  /\ \E value \in StepInputs :
       /\ step' = Min(MAX_STEP, Max(MIN_STEP, value))
       /\ step_duration' = value
       /\ deadline' = now + value
  /\ Logged(Call("set_step", <<>>, 0))
  /\ UNCHANGED <<paused, actions, resume_waker, now, polled, relayVars, lobbyVars>>

\* Mutant of Push: the action goes to the front of the queue.
Push_Front(queue, action) == <<action>> \o queue

\* self.actions.push(action)
Push(queue, action) == Append(queue, action)

\* ActionTickStream::add_action(action)
AddAction ==
  /\ Alive
  /\ LET action == Added(Cardinality(Ops("add_action")) + 1)
     IN /\ actions' = Push(actions, action)
        /\ Logged(Call("add_action", <<action>>, 0))
  /\ UNCHANGED <<paused, step, step_duration, deadline, resume_waker, now, polled,
                 relayVars, lobbyVars>>

\* self.actions = actions
Replaced(queue, list) == list

\* ActionTickStream::replace_actions(actions)
ReplaceActions ==
  /\ Alive
  /\ \E list \in ReplaceLists :
       /\ actions' = Replaced(actions, list)
       /\ Logged(Call("replace_actions", list, 0))
  /\ UNCHANGED <<paused, step, step_duration, deadline, resume_waker, now, polled,
                 relayVars, lobbyVars>>

\* ActionTickStream::pause()
Pause ==
  /\ Alive
  /\ paused' = TRUE
  /\ deadline' = now
  /\ Logged(Call("pause", <<>>, 0))
  /\ UNCHANGED <<step, step_duration, actions, resume_waker, now, polled, relayVars, lobbyVars>>

\* ActionTickStream::resume(); the history keeps the waker it woke, if any.
Resume ==
  /\ Alive
  /\ paused' = FALSE
  /\ deadline' = now + step_duration
  /\ resume_waker' = None
  /\ Logged(Call("resume", resume_waker, 0))
  /\ UNCHANGED <<step, step_duration, actions, now, polled, relayVars, lobbyVars>>

\* Mutant of Taken: the queue is emitted without its last action.
Taken_AllButLast(queue) == IF queue = <<>> THEN queue ELSE SubSeq(queue, 1, Len(queue) - 1)

\* What std::mem::replace(&mut self.actions, vec![]) returns
Taken(queue) == queue

\* Mutant of Blocked: a paused stream is polled like a running one.
Blocked_Never(p) == FALSE

\* if self.paused { ... return Poll::Pending }
Blocked(p) == p

\* Stream::poll_next, paused: the waker is kept for resume()
PollPaused ==
  /\ Alive
  /\ Blocked(paused)
  /\ resume_waker' = Some("consumer")
  /\ polled' = "Pending"
  /\ UNCHANGED <<paused, step, step_duration, deadline, actions, now, calls, relayVars, lobbyVars>>

\* Stream::poll_next, not paused, the delay not over
PollEarly ==
  /\ Alive
  /\ ~Blocked(paused)
  /\ now < deadline
  /\ polled' = "Pending"
  /\ UNCHANGED <<paused, step, step_duration, deadline, actions, resume_waker, now,
                 calls, relayVars, lobbyVars>>

\* Stream::poll_next, not paused, the delay over: a Tick is emitted.  The sum
\* step + delay is a u16 sum: past u16::MAX it wraps, or panics, as the build has it.
PollTick ==
  /\ Alive
  /\ ~Blocked(paused)
  /\ now >= deadline
  /\ LET delay == (now - deadline) % U16
     IN /\ deadline' = deadline + step_duration
        /\ \E overflow \in (IF step + delay >= U16 THEN {"wraps", "panics"} ELSE {"none"}) :
             polled' = IF overflow = "panics" THEN "Panic" ELSE "Ready"
        /\ Logged(Call("tick", Taken(actions), (step + delay) % U16))
  /\ actions' = <<>>
  /\ UNCHANGED <<paused, step, step_duration, resume_waker, now, relayVars, lobbyVars>>

\* Time passes.
Advance ==
  /\ \E d \in TimeDeltas : now + d <= MaxNow /\ now' = now + d
  /\ UNCHANGED <<paused, step, step_duration, deadline, actions, resume_waker, polled,
                 calls, relayVars, lobbyVars>>

\* The task that owns the stream is kept from running for a long time; the
\* history keeps that too.
LongStall == 65535

Stall ==
  /\ now <= MaxNow
  /\ now' = now + LongStall
  /\ Logged(Call("stall", <<>>, 0))
  /\ UNCHANGED <<paused, step, step_duration, deadline, actions, resume_waker, polled,
                 relayVars, lobbyVars>>

RelayIdle == InitRelay /\ faults = FALSE /\ detached = FALSE

InitClock ==
  /\ now = 0
  /\ \E s \in StepInputs : New(s)
  /\ polled = "None"
  /\ calls = <<>>
  /\ RelayIdle
  /\ LobbyIdle

NextClock ==
  \/ SetStep
  \/ AddAction
  \/ ReplaceActions
  \/ Pause
  \/ Resume
  \/ PollPaused
  \/ PollEarly
  \/ PollTick
  \/ Advance
  \/ Stall

SpecClock == InitClock /\ [][NextClock]_vars

(***************************************************************************)
(* The lobby: join_game and leave_game.  A call locks the state of the     *)
(* player, then the state of the game, runs its database step and, if that *)
(* succeeded, changes both states before it lets the locks go.             *)
(***************************************************************************)
\* The guards a call holds: the player's from "player_locked" on, the game's at
\* "game_locked".
HoldsPlayer(c, p) ==
  requests[c].player_id = p /\ requests[c].at \in {"player_locked", "game_locked"}
HoldsGame(c, g) == requests[c].game_id = g /\ requests[c].at = "game_locked"

\* PlayerState::join_game / PlayerState::leave_game
PlayerJoins(joined, p, g) == [joined EXCEPT ![p] = Some(g)]
PlayerLeaves(joined, p) == [joined EXCEPT ![p] = None]

\* GameState::add_player / GameState::remove_player
AddPlayer(players, g, p) == [players EXCEPT ![g] = Append(@, p)]
RemovePlayer(players, g, p) == [players EXCEPT ![g] = SelectSeq(@, LAMBDA q : q # p)]

\* The call of caller c returns: its guards are dropped.
Returns(c, res) ==
  /\ finished' = [op |-> requests[c].op, player_id |-> requests[c].player_id,
                  game_id |-> requests[c].game_id, result |-> res,
                  joined_game_id |-> joined_game_id, game_players |-> game_players]
  /\ requests' = [requests EXCEPT ![c] = Idle]

MovesOn(c, at) ==
  /\ requests' = [requests EXCEPT ![c].at = at]
  /\ finished' = finished

\* A task calls join_game(state, game_id, player_id).
CallJoinGame ==
  /\ \E c \in Callers, p \in LobbyPlayers, g \in GameIds :
       /\ requests[c] = Idle
       /\ requests' = [requests EXCEPT ![c] =
                         [op |-> "join", player_id |-> p, game_id |-> g, at |-> "called"]]
  /\ UNCHANGED <<joined_game_id, game_players, finished, relayVars, clockVars>>

\* A task calls leave_game(state, game_id, player_id).
CallLeaveGame ==
  /\ \E c \in Callers, p \in LobbyPlayers, g \in GameIds :
       /\ requests[c] = Idle
       /\ requests' = [requests EXCEPT ![c] =
                         [op |-> "leave", player_id |-> p, game_id |-> g, at |-> "called"]]
  /\ UNCHANGED <<joined_game_id, game_players, finished, relayVars, clockVars>>

\* Mutant of AlreadyJoined: a player may join a second game.
AlreadyJoined_Never(joined, p) == FALSE

\* if player_guard.joined_game_id().is_some() { return Err(Error::MultiJoin.into()) }
AlreadyJoined(joined, p) == joined[p] # None

\* state.mem.lock_player_state(player_id).await, and what the call does with
\* joined_game_id(): join_game refuses a player who is in a game, leave_game
\* returns for a player who is in none and goes on with the game recorded.
LockPlayerState ==
  /\ \E c \in Callers :
       LET r == requests[c]
       IN /\ r.at = "called"
          /\ \A d \in Callers : ~HoldsPlayer(d, r.player_id)
          /\ IF r.op = "join"
             THEN IF AlreadyJoined(joined_game_id, r.player_id)
                  THEN Returns(c, "MultiJoin")
                  ELSE MovesOn(c, "player_locked")
             ELSE IF joined_game_id[r.player_id] = None
                  THEN Returns(c, "Ok")
                  ELSE /\ requests' = [requests EXCEPT
                                         ![c].at = "player_locked",
                                         ![c].game_id = joined_game_id[r.player_id][1]]
                       /\ finished' = finished
  /\ UNCHANGED <<joined_game_id, game_players, relayVars, clockVars>>

\* state.mem.lock_game_state(game_id).await.ok_or_else(|| Error::GameNotFound)?
LockGameState ==
  /\ \E c \in Callers :
       LET r == requests[c]
       IN /\ r.at = "player_locked"
          /\ IF r.game_id \notin LobbyGames
             THEN Returns(c, "GameNotFound")
             ELSE /\ \A d \in Callers : ~HoldsGame(d, r.game_id)
                  /\ MovesOn(c, "game_locked")
  /\ UNCHANGED <<joined_game_id, game_players, relayVars, clockVars>>

\* state.db.exec(..).await?, and what follows it with both guards held: a
\* database step that fails returns at once; after one that succeeds the state
\* of the player and the state of the game are changed.  join_game may still
\* fail after that, when the game read back has no slot for the player.
DbExec ==
  /\ \E c \in Callers, db \in {"Ok", "Db"} :
       LET r == requests[c]
       IN /\ r.at = "game_locked"
          /\ IF db # "Ok"
             THEN /\ Returns(c, db)
                  /\ UNCHANGED <<joined_game_id, game_players>>
             ELSE IF r.op = "join"
             THEN /\ joined_game_id' = PlayerJoins(joined_game_id, r.player_id, r.game_id)
                  /\ game_players' = AddPlayer(game_players, r.game_id, r.player_id)
                  /\ \E res \in {"Ok", "PlayerSlotNotFound"} : Returns(c, res)
             ELSE /\ joined_game_id' = PlayerLeaves(joined_game_id, r.player_id)
                  /\ game_players' = RemovePlayer(game_players, r.game_id, r.player_id)
                  /\ Returns(c, "Ok")
  /\ UNCHANGED <<relayVars, clockVars>>

InitLobby == LobbyIdle /\ RelayIdle /\ ClockIdle

NextLobby ==
  \/ CallJoinGame
  \/ CallLeaveGame
  \/ LockPlayerState
  \/ LockGameState
  \/ DbExec

SpecLobby == InitLobby /\ [][NextLobby]_vars

(***************************************************************************)
(* The relay's claims.  `last` is the event handled last and the state it  *)
(* was handled in; `effects` is what handling it did.                      *)
(***************************************************************************)
Incoming == last.src \in {"inbound", "deferred_in"}

LiveSources == {"ping", "client", "closed", "error", "status", "no_status",
                "tx_dropped", "inbound"}

FromClient(type) == last.src = "client" /\ last.pkt.type = type

\* C1: handle_incoming_w3gs drops a packet (nothing is sent to the client) if
\* and only if it is a ChatFromHost whose message is Scoped and whose sender is
\* in muted_players; any other packet is sent to the client once, unchanged.
C1_MuteFilter ==
  Incoming =>
    LET pkt == last.pkt
        drop == pkt.type = "ChatFromHost" /\ pkt.kind = "Scoped" /\ pkt.from \in last.muted
    IN /\ drop <=> SentTo(effects, "client") = <<>>
       /\ ~drop => effects = <<ToClient(pkt)>>
       /\ drop => effects = <<>>
       /\ muted_players = last.muted

C1_Witness ==
  /\ last.src = "inbound"
  /\ last.pkt = ChatFromHostPacket(2, "Scoped", "hi")
  /\ last.muted = {2}
  /\ effects = <<>>
  /\ pc = "loop"

\* C2: my_slot_player_id is never in muted_players, whatever mute list the
\* controller returned at startup and whatever commands were handled.
C2_SelfNeverMuted == MySlotPlayerId \notin muted_players

\* C3: a LeaveReq(reason) of the client, in the main loop: the reason is recorded
\* in the end-reason cell, then the LeaveReq is forwarded to the node, then one
\* LeaveAck is sent to the client, and nothing else; run() does not return.
C3_LeaveReq ==
  FromClient("LeaveReq") =>
    /\ effects = <<Record(last.pkt.reason), ToNode(last.pkt), ToClient(LeaveAckPacket)>>
    /\ end_reason = Some(last.pkt.reason)
    /\ pc = "loop"
    /\ result = "none"

C3_Witness ==
  /\ FromClient("LeaveReq")
  /\ last.pkt.reason = 7
  /\ end_reason = Some(7)
  /\ Len(effects) = 3
  /\ pc = "loop"

\* The places in `effects` where e was done.
Places(e) == {i \in 1..Len(effects) : effects[i] = e}

\* C4, as claimed: for a LeaveReq of the client, one LeaveAck is sent to the client
\* and one LeaveReq is forwarded to the node, the LeaveAck first.
C4_AckThenForward ==
  FromClient("LeaveReq") =>
    /\ Cardinality(Places(ToClient(LeaveAckPacket))) = 1
    /\ Cardinality(Places(ToNode(last.pkt))) = 1
    /\ \A i \in Places(ToClient(LeaveAckPacket)), j \in Places(ToNode(last.pkt)) : i < j

\* C4, amended: for a LeaveReq of the client, one LeaveReq is forwarded to the
\* node and one LeaveAck is sent to the client, the forwarded LeaveReq first.
C4_ForwardThenAck ==
  FromClient("LeaveReq") =>
    /\ Cardinality(Places(ToClient(LeaveAckPacket))) = 1
    /\ Cardinality(Places(ToNode(last.pkt))) = 1
    /\ \A i \in Places(ToClient(LeaveAckPacket)), j \in Places(ToNode(last.pkt)) : j < i

C4_Witness ==
  /\ FromClient("LeaveReq")
  /\ last.pkt.reason = 1
  /\ SentTo(effects, "node") = <<ToNode(LeaveReqPacket(1))>>
  /\ SentTo(effects, "client") = <<ToClient(LeaveAckPacket)>>

\* C5: a LeaveAck of the client, in the main loop: one LeaveAck is sent back to
\* the client, the client stream is flushed, nothing goes to the node, run()
\* returns Leave, and no event is handled after that.
C5_LeaveAck ==
  FromClient("LeaveAck") =>
    /\ effects = <<ToClient(LeaveAckPacket), Flush>>
    /\ pc = "done"
    /\ result = "Leave"
    /\ muted_players = last.muted
    /\ end_reason = last.end_reason
    /\ ~ENABLED NextRelay

C5_Witness ==
  /\ FromClient("LeaveAck")
  /\ result = "Leave"
  /\ effects = <<ToClient(LeaveAckPacket), Flush>>

\* C6: run() replays deferred_in, then deferred_out, each from its head on, and
\* handles a live event only when both are empty.
C6_ReplayBeforeLive ==
  /\ pc = "replay_in" => deferred_in # <<>>
  /\ pc = "replay_out" => deferred_in = <<>> /\ deferred_out # <<>>
  /\ pc = "loop" => deferred_in = <<>> /\ deferred_out = <<>>
  /\ last.src = "deferred_in" =>
       /\ last.deferred_in = <<last.pkt>> \o deferred_in
       /\ last.deferred_out = deferred_out
  /\ last.src = "deferred_out" =>
       /\ last.deferred_in = <<>>
       /\ last.deferred_out = <<last.pkt>> \o deferred_out
       /\ deferred_in = <<>>
  /\ last.src \in LiveSources =>
       /\ last.deferred_in = <<>> /\ last.deferred_out = <<>>
       /\ deferred_in = <<>> /\ deferred_out = <<>>

C6_Witness ==
  /\ pc = "replay_out"
  /\ last.src = "deferred_in"
  /\ Len(last.deferred_in) = 1
  /\ Len(deferred_out) >= 2

RECURSIVE Fold(_, _)
Fold(cs, queue) ==
  IF cs = <<>> THEN queue
  ELSE Fold(Tail(cs), CASE Head(cs).op = "add_action" -> queue \o Head(cs).arg
                        [] Head(cs).op = "replace_actions" -> Head(cs).arg
                        [] OTHER -> queue)

\* The last call named op before the k-th call; 0 if there is none.
LastBefore(op, k) ==
  LET before == {j \in Ops(op) : j < k}
  IN IF before = {} THEN 0 ELSE CHOOSE j \in before : \A i \in before : i <= j

Between(j, k) == SubSeq(calls, j + 1, k - 1)

\* The ticks that are the first one after a resume() that ended a pause.
FirstAfterResume ==
  {k \in Ops("tick") :
     LET r == LastBefore("resume", k)
     IN /\ r > 0
        /\ calls[r].paused
        /\ LastBefore("tick", k) < r}

\* The pause() that the resume() before the k-th call ended.
PauseOf(k) == LastBefore("pause", LastBefore("resume", k))

\* The actions of the add_action calls made while paused, among cs.
RECURSIVE AddedInPause(_)
AddedInPause(cs) ==
  IF cs = <<>> THEN <<>>
  ELSE (IF Head(cs).op = "add_action" /\ Head(cs).paused THEN Head(cs).arg ELSE <<>>)
       \o AddedInPause(Tail(cs))

NoTickWhilePaused == \A k \in Ops("tick") : ~calls[k].paused

\* C8, as stated: no poll returns a tick while paused is true, and the first
\* tick after a resume carries exactly the actions pending at pause time
\* followed by those added during the pause.
C8_PausedQueueOnly ==
  /\ NoTickWhilePaused
  /\ \A k \in FirstAfterResume :
       calls[k].arg = calls[PauseOf(k)].queue \o AddedInPause(Between(PauseOf(k), k))

\* C8, amended: no poll returns a tick while paused is true, and the first tick
\* after a resume carries the queue pending at pause time with every add_action
\* and replace_actions call made since that pause (during it or after the
\* resume) applied in call order.
C8_PausedThenApplied ==
  /\ NoTickWhilePaused
  /\ \A k \in FirstAfterResume :
       calls[k].arg = Fold(Between(PauseOf(k), k), calls[PauseOf(k)].queue)

\* An action pending at the pause and one added during it come out in the first
\* tick after the resume.
C8_Witness ==
  \E k \in FirstAfterResume :
    /\ calls[PauseOf(k)].queue # <<>>
    /\ AddedInPause(Between(PauseOf(k), k)) # <<>>
    /\ Len(calls[k].arg) >= 2

\* C9: every tick carries the queue that the add_action and replace_actions
\* calls since the previous emission (or since new()) make of the empty queue,
\* in call order, and the queue is empty right after each emission.
C9_TickCarriesQueue ==
  \A k \in Ops("tick") :
    /\ calls[k].arg = Fold(Between(LastBefore("tick", k), k), <<>>)
    /\ IF k < Len(calls) THEN calls[k + 1].queue = <<>> ELSE actions = <<>>

\* A second tick carries a replaced list followed by an added action.
C9_Witness ==
  \E k \in Ops("tick") :
    /\ LastBefore("tick", k) > 0
    /\ Len(calls[k].arg) >= 2
    /\ calls[k].arg[1].by = "replace_actions"
    /\ calls[k].arg[2].by = "add_action"

Adds == 1..Cardinality(Ops("add_action"))
Holds(queue, n) == IF Added(n) \in Range(queue) THEN 1 ELSE 0
TimesEmitted(n) == Cardinality({k \in Ops("tick") : Added(n) \in Range(calls[k].arg)})
TimesDiscarded(n) ==
  Cardinality({k \in Ops("replace_actions") : Added(n) \in Range(calls[k].queue)})

\* C10, as stated: a pending action leaves the queue only by being emitted, so
\* every action passed to add_action is either still pending or in exactly one
\* emitted tick.
C10_NeverDiscarded ==
  \A n \in Adds : Holds(actions, n) + TimesEmitted(n) = 1

\* C10, amended: every action passed to add_action is in exactly one of three
\* places: still pending, emitted in exactly one tick, or discarded by the one
\* replace_actions call that was made while it was pending.
C10_EmittedOrReplaced ==
  \A n \in Adds : Holds(actions, n) + TimesEmitted(n) + TimesDiscarded(n) = 1

\* One added action has been emitted, another discarded, a third is pending.
C10_Witness ==
  \E a, b, c \in Adds :
    /\ TimesEmitted(a) = 1
    /\ TimesDiscarded(b) = 1
    /\ Holds(actions, c) = 1

\* C11: after new(s) and after set_step(s), for every s, the stored step is
\* within [MIN_STEP, MAX_STEP].
C11_StepInRange == MIN_STEP <= step /\ step <= MAX_STEP

\* C12: every tick has time_increment_ms >= step, and the sum step + delay does
\* not overflow, however late the poll is.
C12_IncrementAtLeastStep ==
  /\ Alive
  /\ (calls # <<>> /\ calls[Len(calls)].op = "tick") => calls[Len(calls)].ms >= step

(***************************************************************************)
(* The relay's claims, continued.                                          *)
(***************************************************************************)
\* The commands the handler recognises: the five exact ones, and every command
\* whose word starts with stats, mute or unmute.
Recognised(text) ==
  /\ ParseChatCommand(text) # None
  /\ LET raw == ParseChatCommand(text)[1]
     IN \/ raw \in {"flo", "game", "muteall", "muteopps", "unmuteall"}
        \/ \E w \in {"stats", "mute", "unmute"} : StartsWith(raw, w)

\* C13: a ChatToHost of the client whose message is Scoped and is a recognised
\* command sends nothing to the node; any other ChatToHost is forwarded to the
\* node once, unchanged, and nothing else is done.
C13_CommandsNotForwarded ==
  FromClient("ChatToHost") =>
    IF last.pkt.kind = "Scoped" /\ Recognised(last.pkt.text)
    THEN SentTo(effects, "node") = <<>>
    ELSE effects = <<ToNode(last.pkt)>> /\ muted_players = last.muted

\* A mute command was consumed, and it changed the mute set.
C13_Witness ==
  /\ FromClient("ChatToHost")
  /\ last.pkt.text = "-mute 2"
  /\ last.muted = {}
  /\ muted_players = {2}
  /\ SentTo(effects, "node") = <<>>

\* The handler of the last event tried a send or a flush on the client stream
\* and it failed.
ClientSendFailed ==
  \/ /\ last.fault.client
     /\ \/ last.src = "ping"
        \/ Incoming /\ last.pkt.ok /\ ~(last.pkt.type = "ChatFromHost" /\ last.muted # {}
                                        /\ MutedChat(last.pkt, last.muted))
        \/ FromClient("LeaveAck")
        \/ FromClient("LeaveReq") /\ last.pkt.ok
  \/ last.fault.flush /\ ~last.fault.client /\ FromClient("LeaveAck")

\* C14: a failure of the client stream, on a receive, a send or a flush, makes
\* run return Ok(GameResult::Disconnected).
C14_ClientFailureDisconnects ==
  (last.src = "error" \/ ClientSendFailed) => pc = "done" /\ result = "Disconnected"

Typed(text) == FromClient("ChatToHost") /\ last.pkt.kind = "Scoped" /\ last.pkt.text = text
TypedAfter(text, before) ==
  /\ Typed(text)
  /\ last.prev.src = "client"
  /\ last.prev.pkt.type = "ChatToHost"
  /\ last.prev.pkt.kind = "Scoped"
  /\ last.prev.pkt.text = before

\* C16, as stated: muteall followed at once by unmuteall leaves muted_players as
\* it was before the two.
C16_MuteAllUnmuteAllIdentity ==
  TypedAfter("-unmuteall", "-muteall") => muted_players = last.prev.muted

\* C16, amended: muteall mutes every other player on top of the set M it meets,
\* and unmuteall after it leaves muted_players empty, whatever M was.
C16_MuteAllUnmuteAllEmpty ==
  TypedAfter("-unmuteall", "-muteall") =>
    /\ last.muted = last.prev.muted \cup (SlotPlayerIds \ {MySlotPlayerId})
    /\ muted_players = {}

\* The two commands were handled with B muted before them.
C16_Witness ==
  /\ TypedAfter("-unmuteall", "-muteall")
  /\ last.prev.muted = {2}
  /\ last.muted = {2, 3}
  /\ muted_players = {}

\* The other players' slot ids, and the commands that name them.
Others == SlotPlayerIds \ {MySlotPlayerId}
MuteTexts(x) == {"-mute " \o ToString(x), "-mutef " \o ToString(x)}
UnmuteTexts(x) == {"-unmute " \o ToString(x), "-unmutef " \o ToString(x)}

\* C17, as stated: `mute x` twice gives the set that `mute x` once gives, and
\* `mute x` followed by `unmute x` gives the set M there was before the two.
C17_MuteUndoneByUnmute ==
  \A x \in Others :
    /\ \A m1, m2 \in MuteTexts(x) : TypedAfter(m2, m1) => muted_players = last.muted
    /\ \A m \in MuteTexts(x), u \in UnmuteTexts(x) :
         TypedAfter(u, m) => muted_players = last.prev.muted

\* C17, amended: `mute x` twice gives the set that `mute x` once gives, M with x
\* added, and `mute x` followed by `unmute x` gives M without x: that is M only
\* when x was not muted before.
C17_MuteThenUnmuteRemoves ==
  \A x \in Others :
    /\ \A m1, m2 \in MuteTexts(x) :
         TypedAfter(m2, m1) =>
           last.muted = last.prev.muted \cup {x} /\ muted_players = last.muted
    /\ \A m \in MuteTexts(x), u \in UnmuteTexts(x) :
         TypedAfter(u, m) => muted_players = last.prev.muted \ {x}

\* B was muted, `mute 2` left it so, and `unmute 2` un-muted it.
C17_Witness ==
  /\ TypedAfter("-unmute 2", "-mute 2")
  /\ last.prev.muted = {2, 3}
  /\ last.muted = {2, 3}
  /\ muted_players = {3}

\* C18, as stated: the end-reason cell is written at most once in a run, so a
\* LeaveReq that finds a reason in it leaves that reason there.
C18_WrittenOnce ==
  (FromClient("LeaveReq") /\ last.end_reason # None) => end_reason = last.end_reason

\* C18, amended: every LeaveReq of the client writes its reason into the cell,
\* over the one of an earlier LeaveReq, and nothing else writes the cell: it
\* holds the reason of the last LeaveReq received.
C18_LastReasonKept ==
  IF FromClient("LeaveReq")
  THEN end_reason = Some(last.pkt.reason)
  ELSE end_reason = last.end_reason

\* A second LeaveReq, with another reason, was handled.
C18_Witness ==
  /\ FromClient("LeaveReq")
  /\ last.end_reason = Some(1)
  /\ end_reason = Some(7)

\* The steps of the detached tasks.
TaskSources == {"chat_task", "save_ok", "save_failed", "stats_task"}
Saved == last.src \in {"save_ok", "save_failed"}
NameOf(x) == (CHOOSE p \in Range(PlayerInfos) : p.slot_player_id = x).name
PlayerIdOf(x) == (CHOOSE p \in Range(PlayerInfos) : p.slot_player_id = x).player_id
ChatTaskOf(message) == SendChatsToSelf(MySlotPlayerId, <<message>>)

\* C19: a mute or unmute command that resolves to a target x changes
\* muted_players at once; with the f suffix it spawns the save task and no
\* chat, without it it spawns one chat and no save task.  Only a save task sends
\* the controller a request, one MutePlayer or UnmutePlayer for its player, and
\* leaves exactly one chat to send: `forever` after an answer that succeeded,
\* `temporary` after one that failed.  No step of a task changes muted_players
\* or where run() is.
C19_SaveMute ==
  /\ \A x \in Others :
       /\ Typed("-mute " \o ToString(x)) =>
            /\ muted_players = last.muted \cup {x}
            /\ effects = <<Spawn(ChatTaskOf("Muted: " \o NameOf(x)))>>
       /\ Typed("-mutef " \o ToString(x)) =>
            /\ muted_players = last.muted \cup {x}
            /\ effects = <<Spawn(SaveMute(PlayerIdOf(x), NameOf(x), TRUE))>>
       /\ Typed("-unmute " \o ToString(x)) /\ x \in last.muted =>
            /\ muted_players = last.muted \ {x}
            /\ effects = <<Spawn(ChatTaskOf("Un-muted: " \o NameOf(x)))>>
       /\ Typed("-unmutef " \o ToString(x)) /\ x \in last.muted =>
            /\ muted_players = last.muted \ {x}
            /\ effects = <<Spawn(SaveMute(PlayerIdOf(x), NameOf(x), FALSE))>>
  /\ (\E i \in 1..Len(effects) : effects[i][1] = "controller") => Saved
  /\ Saved =>
       \E x \in Others, muted \in BOOLEAN :
         /\ effects = <<Controller(IF muted THEN "MutePlayer" ELSE "UnmutePlayer",
                                   PlayerIdOf(x))>>
         /\ \E i \in 1..Len(tasks) :
              tasks[i] = ChatTaskOf((IF muted THEN "Muted" ELSE "Un-muted")
                                    \o (IF last.src = "save_ok" THEN " forever: "
                                        ELSE " temporary: ")
                                    \o NameOf(x))
  /\ last.src \in TaskSources =>
       /\ muted_players = last.muted
       /\ pc = last.pc
       /\ result = last.result
       /\ end_reason = last.end_reason

\* The controller refused to save the mute of C: C stays muted, run() is still
\* in its loop and the chat left to send says `temporary`.
C19_Witness ==
  /\ last.src = "save_failed"
  /\ 3 \in muted_players
  /\ pc = "loop"
  /\ tasks = <<ChatTaskOf("Muted temporary: C")>>

AutoMuted(pkt) == pkt.type = "ChatFromHost" /\ StartsWith(pkt.text, "Auto muted: ")
AutoMutedChat(muted) ==
  LET hit == SelectSeq(PlayerInfos, LAMBDA p : p.slot_player_id \in muted)
  IN PrivateToSelf(MySlotPlayerId,
                   "Auto muted: " \o Join([i \in 1..Len(hit) |-> hit[i].name], ", "))
\* The Auto muted chat is still with its task or in the channel.
AutoMutedPending ==
  \/ \E i \in 1..Len(tasks) :
       tasks[i].kind = "chat" /\ \E j \in 1..Len(tasks[i].msgs) :
         StartsWith(tasks[i].msgs[j], "Auto muted: ")
  \/ \E i \in 1..Len(w3gs_rx) : AutoMuted(w3gs_rx[i])
ChatsToClient ==
  {effects[i][2] : i \in {j \in 1..Len(effects) :
                            effects[j][1] = "client" /\ effects[j][2].type = "ChatFromHost"}}
AnnouncedOnce ==
  last.src = "run" =>
    effects = IF muted_players = {} THEN <<>>
              ELSE <<Spawn(SendChatsToSelf(MySlotPlayerId,
                                           <<AutoMutedChat(muted_players).text>>))>>

\* C20, as stated: run() spawns one Auto muted chat when the mute list hits a
\* player of the game, and no other chat reaches the client while that chat is
\* still on its way.
C20_AutoMutedFirst ==
  /\ AnnouncedOnce
  /\ \A pkt \in ChatsToClient : ~AutoMuted(pkt) => ~AutoMutedPending

\* C20, amended: run() spawns one Auto muted chat when the mute list hits a
\* player of the game.  The chat reaches the client only when the main loop
\* receives it from the w3gs channel, after the replay of both deferred lists,
\* and no second one is then on its way; it goes through the mute filter as any
\* chat does, and so is dropped when the local player is muted.  (Chats of
\* deferred_in and of the node side may reach the client before it.)
C20_AutoMutedInLoop ==
  /\ AnnouncedOnce
  /\ \A pkt \in ChatsToClient :
       AutoMuted(pkt) =>
         /\ last.src = "inbound" /\ last.pc = "loop"
         /\ last.pkt = pkt
         /\ last.deferred_in = <<>> /\ last.deferred_out = <<>>
         /\ ~AutoMutedPending
  /\ last.src = "inbound" /\ AutoMuted(last.pkt) =>
       effects = IF last.pkt.from \in last.muted THEN <<>> ELSE <<ToClient(last.pkt)>>

\* The main loop hands the chat `Auto muted: B` to the client.
C20_Witness ==
  /\ last.src = "inbound"
  /\ last.pkt = PrivateToSelf(MySlotPlayerId, "Auto muted: B")
  /\ effects = <<ToClient(last.pkt)>>

\* The replay of deferred_out has just sent a LeaveAck that came after a LeaveReq.
LeavePairReplayed ==
  /\ last.src = "deferred_out"
  /\ last.pkt = LeaveAckPacket
  /\ last.prev.src = "deferred_out"
  /\ last.prev.pkt.type = "LeaveReq"

C22_IntervalIsStep == step_duration = step

\* Call k is a resume that woke the consumer parked by a poll of the paused stream.
Woken(k) == calls[k].op = "resume" /\ calls[k].paused /\ calls[k].arg = Some("consumer")

\* The time of the resume that the last tick follows: the resume armed the
\* deadline at its time plus step_duration, and the tick moved it by
\* step_duration once more.
ResumedAt == deadline - 2 * step_duration

\* C23 (its safety half): when a resume at time t wakes the parked consumer,
\* the waker is taken (it is woken once), and the tick that follows is not
\* emitted before t + step.
C23_NoTickBeforeStep ==
  LET n == Len(calls)
  IN /\ n >= 1 /\ Woken(n) => resume_waker = None
     /\ n >= 2 /\ calls[n].op = "tick" /\ Woken(n - 1) => now >= ResumedAt + step

EligibleToMute(muted) == Others \ muted
EligibleToUnmute(muted) == muted
ChatSpawned == Len(effects) = 1 /\ effects[1][1] = "spawn" /\ effects[1][2].kind = "chat"

\* C25: mute/mutef and unmute/unmutef without argument change muted_players if
\* and only if exactly one target is eligible, and then insert (mute) or remove
\* (unmute) that one slot id; otherwise the set is unchanged and one chat task
\* with a message or a player list is all that is spawned.
C25_SingleTargetOnly ==
  /\ \A t \in {"-mute", "-mutef"} :
       Typed(t) =>
         LET e == EligibleToMute(last.muted)
         IN IF Cardinality(e) = 1
            THEN muted_players = last.muted \cup e /\ muted_players # last.muted
            ELSE muted_players = last.muted /\ ChatSpawned
  /\ \A t \in {"-unmute", "-unmutef"} :
       Typed(t) =>
         LET e == EligibleToUnmute(last.muted)
         IN IF Cardinality(e) = 1
            THEN muted_players = last.muted \ e /\ muted_players # last.muted
            ELSE muted_players = last.muted /\ ChatSpawned

\* C26: every id in muted_players is the slot_player_id of a player of the game,
\* after the startup mute list and after every command.
C26_MutedAreInGame == muted_players \subseteq SlotPlayerIds

\* B was muted at startup, and `mute 9`, the id of no player, was then handled.
C26_Witness ==
  /\ Typed("-mute 9")
  /\ last.muted = {2}
  /\ muted_players = {2}

\* C27, as stated: when run has returned Leave, the end-reason cell holds the
\* reason of a LeaveReq.
C27_LeaveHasReason == result = "Leave" => end_reason # None

\* C27, amended: run returns Leave for a LeaveAck of the client in the main
\* loop, and that branch leaves the end-reason cell as it finds it: the cell
\* holds the reason of the LeaveReq handled just before, and it is unset when
\* the LeaveAck is the first packet the main loop handles (no LeaveReq came
\* first, or it came in deferred_out, which records nothing).
C27_LeaveKeepsReason ==
  result = "Leave" =>
    /\ last.src = "client" /\ last.pkt = LeaveAckPacket /\ last.pc = "loop"
    /\ end_reason = last.end_reason
    /\ last.prev.src = "client" /\ last.prev.pkt.type = "LeaveReq" =>
         end_reason = Some(last.prev.pkt.reason)
    /\ last.prev.src \in {"run", "deferred_in", "deferred_out"} => end_reason = None

\* run returned Leave with no end reason: the LeaveReq was a deferred packet.
C27_Witness ==
  /\ result = "Leave"
  /\ end_reason = None
  /\ last.prev.src = "deferred_out"
  /\ last.prev.pkt = LeaveReqPacket(7)

\* A task that carries the reply to a chat command (the one chat task that does
\* not is the Auto muted chat of the startup).
CommandReply(task) ==
  task.kind = "chat" => ~StartsWith(Head(task.msgs), "Auto muted: ")
CommandRepliesOvertaken ==
  {k \in 1..Len(effects) : effects[k][1] = "overtakes" /\ CommandReply(effects[k][2])}
\* A chat task has just sent: the line is the first one the task had left, it
\* is at the end of the channel, and the task keeps the lines after it.
LineInListOrder ==
  last.src = "chat_task" =>
    LET from == effects[2][2]
    IN /\ effects[1] = Queued(last.pkt)
       /\ last.pkt = PrivateToSelf(from.to, Head(from.msgs))
       /\ w3gs_rx # <<>> /\ w3gs_rx[Len(w3gs_rx)] = last.pkt
       /\ Tail(from.msgs) # <<>> =>
            \E k \in 1..Len(tasks) : tasks[k] = [from EXCEPT !.msgs = Tail(from.msgs)]

InGame(p, g) == \E i \in 1..Len(game_players[g]) : game_players[g][i] = p
MemoryKept ==
  joined_game_id = finished.joined_game_id /\ game_players = finished.game_players

\* C29: a player is in the player list of a game only if the player's state
\* records that game (so in the list of at most one game).  join_game for a
\* player whose state records a game fails with MultiJoin and changes nothing;
\* a join or leave whose database step fails changes nothing; leave_game for a
\* player in no game returns Ok and changes nothing.
C29_LobbyMembership ==
  /\ \A p \in LobbyPlayers, g \in LobbyGames : InGame(p, g) => joined_game_id[p] = Some(g)
  /\ finished.op = "join" =>
       /\ finished.joined_game_id[finished.player_id] # None <=> finished.result = "MultiJoin"
       /\ finished.result = "MultiJoin" => MemoryKept
  /\ finished.result = "Db" => MemoryKept
  /\ finished.op = "leave" /\ finished.joined_game_id[finished.player_id] = None =>
       finished.result = "Ok" /\ MemoryKept

\* Player 1 is in game 1, a second join of player 1 (to game 2) was refused,
\* and another call is under way with both guards held.
C29_Witness ==
  /\ finished.op = "join" /\ finished.player_id = 1 /\ finished.game_id = 2
  /\ finished.result = "MultiJoin"
  /\ joined_game_id[1] = Some(1)
  /\ game_players[1] = <<1>>
  /\ \E c \in Callers : requests[c].at = "game_locked"

====
